---- MODULE Spec2Model ----
(***************************************************************************)
(* blogicum: the blog application's store (models.py) and its request      *)
(* handlers (views.py) as a state machine.                                 *)
(*                                                                         *)
(* The store holds posts, comments, categories and locations; users are    *)
(* managed outside the application.  Every handler is one action: it reads *)
(* the store and the clock, possibly writes the store, and leaves its      *)
(* response in resp.                                                       *)
(***************************************************************************)
EXTENDS Integers, Sequences, FiniteSets, TLC

VARIABLES posts, comments, categories, locations, now,
          nextPostId, nextCommentId, resp

vars == <<posts, comments, categories, locations, now,
          nextPostId, nextCommentId, resp>>

store == <<posts, comments, categories, locations>>

(* ------------------------------ bounds -------------------------------- *)

\* Authorship runs: posts 1..MaxPosts and comments 1..MaxComments are created.
MaxPosts == 1
MaxComments == 1
\* Cascade runs: posts 1..MaxCascadePosts, comments 1..MaxCascadeComments.
MaxCascadePosts == 2
MaxCascadeComments == 2
\* Visibility runs: posts 1..MaxVisPosts are created.
MaxVisPosts == 1
\* Profile runs: posts 1..MaxProfilePosts are created.
MaxProfilePosts == 2
\* The clock runs over 0..MaxTime; pub_date is drawn from the same range.
MaxTime == 1
\* Pagination inputs: collections of 0..MaxItems items, pages of 1..MaxPerPage.
MaxItems == 5
MaxPerPage == 3

(* ------------------------------ domains ------------------------------- *)

Users == {"u1", "u2"}
\* request.user of a request without a session (AnonymousUser).
Anonymous == "anon"
Requesters == Users \cup {Anonymous}
\* A username no User row has.
UnknownName == "ghost"
Methods == {"GET", "POST"}
Texts == {"a", "b"}
\* The value of a nullable foreign key that references nothing.
NULL == "null"
CategoryIds == {"c1", "c2"}
LocationIds == {"l1"}
\* The ids a request may name: those created, and one never created.
PostIds == 1..(MaxPosts + 1)
CommentIds == 1..(MaxComments + 1)
PubDates == 0..MaxTime

\* request.GET.get('page'): absent, a non-numeric string, or a numeral.
PageParam(kind, val) == [kind |-> kind, val |-> val]
AbsentPage == PageParam("absent", 0)
TextPage == PageParam("text", 0)
IntPage(n) == PageParam("int", n)

(* ------------------------------ models.py ----------------------------- *)

\* Post: the fields a handler reads or writes (title, text and image are
\* one content field, text).
Post(author, text, pub_date, is_published, category, location) ==
    [author |-> author, text |-> text, pub_date |-> pub_date,
     is_published |-> is_published, category |-> category,
     location |-> location]

\* Comment: text, its post, its author.
Comment(author, post, text) ==
    [author |-> author, post |-> post, text |-> text]

\* Category: the publication flag of TimeStampedModel.
Category(is_published) == [is_published |-> is_published]

\* Mutant of Without: delete() leaves the row in place.
Without_kept(f, k) == f

\* model.delete(): the table without row k.
Without(f, k) == [x \in DOMAIN f \ {k} |-> f[x]]

\* Mutant of CascadeComments: the comments of a deleted post are kept.
CascadeComments_none(post_id) == comments

\* Comment.post: on_delete=CASCADE.  The comments left once post_id is gone.
CascadeComments(post_id) ==
    [c \in {x \in DOMAIN comments : comments[x].post # post_id} |-> comments[c]]

\* Mutant of SetNullCategory: on_delete=CASCADE, the category's posts go.
SetNullCategory_cascade(c) ==
    [p \in {x \in DOMAIN posts : posts[x].category # c} |-> posts[p]]

\* Post.category: on_delete=SET_NULL.  The posts once category c is gone.
SetNullCategory(c) ==
    [p \in DOMAIN posts |->
        IF posts[p].category = c
        THEN [posts[p] EXCEPT !.category = NULL] ELSE posts[p]]

\* Post.location: on_delete=SET_NULL.  The posts once location l is gone.
SetNullLocation(l) ==
    [p \in DOMAIN posts |->
        IF posts[p].location = l
        THEN [posts[p] EXCEPT !.location = NULL] ELSE posts[p]]

(* ------------------------------ responses ----------------------------- *)

\* What a handler answered, with the request it answered: listed is the
\* ordered queryset a listing view handed to the paginator, page the page
\* it rendered.
Resp(view, user, method, post_id, comment_id, username, status, listed, page) ==
    [view |-> view, user |-> user, method |-> method, post_id |-> post_id,
     comment_id |-> comment_id, username |-> username, status |-> status,
     listed |-> listed, page |-> page]

NoPage == [param |-> AbsentPage, per_page |-> 0, number |-> 0, object_list |-> <<>>]

NoResp == Resp("none", Anonymous, "GET", 0, 0, NULL, "none", <<>>, NoPage)

\* The page a listing view rendered, with the request's page parameter
\* and the page size it was cut with.
Rendered(param, per_page, page_obj) ==
    [param |-> param, per_page |-> per_page, number |-> page_obj.number,
     object_list |-> page_obj.object_list]

\* A response that renders no listing.
Plain(view, user, method, post_id, comment_id, username, status) ==
    Resp(view, user, method, post_id, comment_id, username, status, <<>>, NoPage)

(* ------------------------------ pagination ---------------------------- *)

\* Page size of every listing (blog.constants).
POSTS_PER_PAGE == 10

Max(a, b) == IF a >= b THEN a ELSE b

\* Paginator.num_pages: ceil(max(1, count) / per_page), with the defaults
\* orphans=0 and allow_empty_first_page=True.
num_pages(count, per_page) == (Max(1, count) + per_page - 1) \div per_page

\* Paginator.validate_number: int(number), then the range check.
validate_number(param, count, per_page) ==
    IF param.kind # "int" THEN [error |-> "PageNotAnInteger", number |-> 0]
    ELSE IF param.val < 1 THEN [error |-> "EmptyPage", number |-> 0]
    ELSE IF param.val > num_pages(count, per_page)
         THEN [error |-> "EmptyPage", number |-> 0]
    ELSE [error |-> "none", number |-> param.val]

\* Paginator.page: the slice [bottom, top) of the object list.
page(number, object_list, per_page) ==
    LET bottom == (number - 1) * per_page
        top == IF bottom + per_page >= Len(object_list)
               THEN Len(object_list) ELSE bottom + per_page
    IN SubSeq(object_list, bottom + 1, top)

\* Paginator.get_page: PageNotAnInteger gives page 1, EmptyPage the last page.
get_page(param, object_list, per_page) ==
    LET v == validate_number(param, Len(object_list), per_page)
        number == IF v.error = "PageNotAnInteger" THEN 1
                  ELSE IF v.error = "EmptyPage"
                       THEN num_pages(Len(object_list), per_page)
                  ELSE v.number
    IN [number |-> number, object_list |-> page(number, object_list, per_page)]

\* Mutant of paginate_queryset: the page parameter is never read.
paginate_queryset_first(param, queryset, per_page) ==
    get_page(AbsentPage, queryset, per_page)

\* paginate_queryset: Paginator(queryset, per_page).get_page(GET['page']).
paginate_queryset(param, queryset, per_page) ==
    get_page(param, queryset, per_page)

(* ------------------------------ visibility ---------------------------- *)

\* Mutant of is_public: the is_published condition is missing.
is_public_unpublished(p) ==
    /\ posts[p].pub_date <= now
    /\ posts[p].category \in DOMAIN categories
    /\ categories[posts[p].category].is_published

\* The filter of public_posts.  The condition category__is_published=True
\* joins the category table: a post whose category is NULL has no row to
\* join and does not pass.
is_public(p) ==
    /\ posts[p].pub_date <= now
    /\ posts[p].is_published
    /\ posts[p].category \in DOMAIN categories
    /\ categories[posts[p].category].is_published

\* order_by('-pub_date'): every order of S with pub_date descending (the
\* order among equal pub_dates is the database's choice).
order_by_pub_date_desc(S) ==
    {s \in [1..Cardinality(S) -> S] :
        /\ \A i, j \in 1..Cardinality(S) : i # j => s[i] # s[j]
        /\ \A i, j \in 1..Cardinality(S) :
              i < j => posts[s[i]].pub_date >= posts[s[j]].pub_date}

\* public_posts(posts_queryset): the possible results, as ordered lists.
public_posts(posts_queryset) ==
    order_by_pub_date_desc({p \in posts_queryset : is_public(p)})

\* Mutant of detail_filter: the pub_date condition is missing.
detail_filter_future(p) ==
    /\ posts[p].is_published
    /\ posts[p].category \in DOMAIN categories
    /\ categories[posts[p].category].is_published

\* The filter of post_detail's second lookup, for a viewer who is not the
\* author: is_published, pub_date__lte=now, category__is_published.
detail_filter(p) ==
    /\ posts[p].is_published
    /\ posts[p].pub_date <= now
    /\ posts[p].category \in DOMAIN categories
    /\ categories[posts[p].category].is_published

\* Mutant of profile_posts: every viewer gets the owner's list.
profile_posts_all(user, username) ==
    order_by_pub_date_desc({p \in DOMAIN posts : posts[p].author = username})

\* The queryset of profile: all of the user's posts for the owner, the
\* user's public posts for anyone else; the possible ordered lists.
profile_posts(user, username) ==
    IF user = username
    THEN order_by_pub_date_desc({p \in DOMAIN posts : posts[p].author = username})
    ELSE public_posts({p \in DOMAIN posts : posts[p].author = username})

(* ------------------------------ forms --------------------------------- *)

IsAuthenticated(user) == user \in Users

\* PostForm.is_valid(): bound (a POST with data), its fields clean, and
\* the category and location choices existing rows.
PostFormValid(method, valid, data) ==
    /\ method = "POST"
    /\ valid
    /\ data.category \in DOMAIN categories
    /\ data.location \in locations \cup {NULL}

\* PostForm over an instance: the form's fields replace the instance's;
\* author is not a field of the form.
PostFormApply(post, data) == [data EXCEPT !.author = post.author]

\* CommentForm.is_valid(): bound and its text clean.
CommentFormValid(method, valid) == method = "POST" /\ valid

\* CommentForm over an instance: text is the form's only field.
CommentFormApply(comment, text) == [comment EXCEPT !.text = text]

(* ------------------------------ handlers ------------------------------ *)

Respond(r) == resp' = r

\* Mutant of set_author: the author the form data names is kept.
set_author_kept(instance, user) == instance

\* post.author = request.user, on the unsaved instance of a valid form.
set_author(instance, user) == [instance EXCEPT !.author = user]

\* Mutant of owned_post: the lookup is by pk alone.
owned_post_any(user, post_id) == post_id \in DOMAIN posts

\* get_object_or_404(Post, pk=post_id, author=request.user) finds a row.
owned_post(user, post_id) ==
    post_id \in DOMAIN posts /\ posts[post_id].author = user

\* Mutant of owned_comment: the lookup is by pk alone.
owned_comment_any(user, comment_id) == comment_id \in DOMAIN comments

\* get_object_or_404(Comment, pk=comment_id, author=request.user) finds a row.
owned_comment(user, comment_id) ==
    comment_id \in DOMAIN comments /\ comments[comment_id].author = user

ReadOnly ==
    UNCHANGED <<posts, comments, categories, locations, now,
                nextPostId, nextCommentId>>

\* index: a page of public_posts().
index(user, param) ==
    /\ \E listed \in public_posts(DOMAIN posts) :
          Respond(Resp("index", user, "GET", 0, 0, NULL, "ok", listed,
                       Rendered(param, POSTS_PER_PAGE,
                           paginate_queryset(param, listed, POSTS_PER_PAGE))))
    /\ ReadOnly

\* post_detail: the post by pk; for a viewer who is not its author, the
\* post by pk under the visibility filter.  The page rendered shows the
\* post with its comments, which the response here does not repeat.
post_detail(user, post_id) ==
    /\ IF post_id \notin DOMAIN posts
       THEN Respond(Plain("post_detail", user, "GET", post_id, 0, NULL, "not_found"))
       ELSE IF posts[post_id].author # user /\ ~detail_filter(post_id)
       THEN Respond(Plain("post_detail", user, "GET", post_id, 0, NULL, "not_found"))
       ELSE Respond(Plain("post_detail", user, "GET", post_id, 0, NULL, "ok"))
    /\ ReadOnly

\* create_post: a valid form is saved with author set to request.user.
create_post(user, method, valid, data) ==
    IF ~IsAuthenticated(user)
    THEN /\ Respond(Plain("create_post", user, method, 0, 0, NULL, "redirect_login"))
         /\ ReadOnly
    ELSE IF PostFormValid(method, valid, data)
    THEN /\ posts' = [p \in DOMAIN posts \cup {nextPostId} |->
                        IF p = nextPostId
                        THEN set_author(data, user) ELSE posts[p]]
         /\ nextPostId' = nextPostId + 1
         /\ Respond(Plain("create_post", user, method, nextPostId, 0, user,
                          "redirect_profile"))
         /\ UNCHANGED <<comments, categories, locations, now, nextCommentId>>
    ELSE /\ Respond(Plain("create_post", user, method, 0, 0, NULL, "ok"))
         /\ ReadOnly

\* edit_post: anyone but the author is sent to the detail view; the
\* author's valid form is saved.
edit_post(user, method, valid, post_id, data) ==
    IF ~IsAuthenticated(user)
    THEN /\ Respond(Plain("edit_post", user, method, post_id, 0, NULL, "redirect_login"))
         /\ ReadOnly
    ELSE IF post_id \notin DOMAIN posts
    THEN /\ Respond(Plain("edit_post", user, method, post_id, 0, NULL, "not_found"))
         /\ ReadOnly
    ELSE IF user # posts[post_id].author
    THEN /\ Respond(Plain("edit_post", user, method, post_id, 0, NULL, "redirect_detail"))
         /\ ReadOnly
    ELSE IF PostFormValid(method, valid, data)
    THEN /\ posts' = [posts EXCEPT ![post_id] = PostFormApply(posts[post_id], data)]
         /\ Respond(Plain("edit_post", user, method, post_id, 0, NULL, "redirect_detail"))
         /\ UNCHANGED <<comments, categories, locations, now,
                        nextPostId, nextCommentId>>
    ELSE /\ Respond(Plain("edit_post", user, method, post_id, 0, NULL, "ok"))
         /\ ReadOnly

\* delete_post: the post by pk and author=request.user; a POST deletes it
\* (and, by cascade, its comments), a GET renders the confirmation.
delete_post(user, method, post_id) ==
    IF ~IsAuthenticated(user)
    THEN /\ Respond(Plain("delete_post", user, method, post_id, 0, NULL, "redirect_login"))
         /\ ReadOnly
    ELSE IF ~owned_post(user, post_id)
    THEN /\ Respond(Plain("delete_post", user, method, post_id, 0, NULL, "not_found"))
         /\ ReadOnly
    ELSE IF method = "POST"
    THEN /\ posts' = Without(posts, post_id)
         /\ comments' = CascadeComments(post_id)
         /\ Respond(Plain("delete_post", user, method, post_id, 0, user,
                          "redirect_profile"))
         /\ UNCHANGED <<categories, locations, now, nextPostId, nextCommentId>>
    ELSE /\ Respond(Plain("delete_post", user, method, post_id, 0, NULL, "ok"))
         /\ ReadOnly

\* add_comment: a valid form is saved with author=request.user, post=post.
add_comment(user, method, valid, post_id, text) ==
    IF ~IsAuthenticated(user)
    THEN /\ Respond(Plain("add_comment", user, method, post_id, 0, NULL, "redirect_login"))
         /\ ReadOnly
    ELSE IF post_id \notin DOMAIN posts
    THEN /\ Respond(Plain("add_comment", user, method, post_id, 0, NULL, "not_found"))
         /\ ReadOnly
    ELSE IF CommentFormValid(method, valid)
    THEN /\ comments' = [c \in DOMAIN comments \cup {nextCommentId} |->
                           IF c = nextCommentId
                           THEN Comment(user, post_id, text) ELSE comments[c]]
         /\ nextCommentId' = nextCommentId + 1
         /\ Respond(Plain("add_comment", user, method, post_id, nextCommentId, NULL,
                          "redirect_detail"))
         /\ UNCHANGED <<posts, categories, locations, now, nextPostId>>
    ELSE /\ Respond(Plain("add_comment", user, method, post_id, 0, NULL, "ok"))
         /\ ReadOnly

\* edit_comment: the comment by pk and author=request.user; a valid form
\* is saved.  post_id only names the redirect's target.
edit_comment(user, method, valid, post_id, comment_id, text) ==
    IF ~IsAuthenticated(user)
    THEN /\ Respond(Plain("edit_comment", user, method, post_id, comment_id, NULL,
                          "redirect_login"))
         /\ ReadOnly
    ELSE IF ~owned_comment(user, comment_id)
    THEN /\ Respond(Plain("edit_comment", user, method, post_id, comment_id, NULL,
                          "not_found"))
         /\ ReadOnly
    ELSE IF CommentFormValid(method, valid)
    THEN /\ comments' = [comments EXCEPT
                            ![comment_id] = CommentFormApply(comments[comment_id], text)]
         /\ Respond(Plain("edit_comment", user, method, post_id, comment_id, NULL,
                          "redirect_detail"))
         /\ UNCHANGED <<posts, categories, locations, now,
                        nextPostId, nextCommentId>>
    ELSE /\ Respond(Plain("edit_comment", user, method, post_id, comment_id, NULL, "ok"))
         /\ ReadOnly

\* delete_comment: the comment by pk and author=request.user; a POST
\* deletes it, a GET renders the confirmation.
delete_comment(user, method, post_id, comment_id) ==
    IF ~IsAuthenticated(user)
    THEN /\ Respond(Plain("delete_comment", user, method, post_id, comment_id, NULL,
                          "redirect_login"))
         /\ ReadOnly
    ELSE IF ~owned_comment(user, comment_id)
    THEN /\ Respond(Plain("delete_comment", user, method, post_id, comment_id, NULL,
                          "not_found"))
         /\ ReadOnly
    ELSE IF method = "POST"
    THEN /\ comments' = Without(comments, comment_id)
         /\ Respond(Plain("delete_comment", user, method, post_id, comment_id, NULL,
                          "redirect_detail"))
         /\ UNCHANGED <<posts, categories, locations, now,
                        nextPostId, nextCommentId>>
    ELSE /\ Respond(Plain("delete_comment", user, method, post_id, comment_id, NULL, "ok"))
         /\ ReadOnly

\* profile: the owner sees all of their posts, anyone else the public ones.
profile(user, username, param) ==
    /\ IF username \notin Users
       THEN Respond(Plain("profile", user, "GET", 0, 0, username, "not_found"))
       ELSE \E listed \in profile_posts(user, username) :
               Respond(Resp("profile", user, "GET", 0, 0, username, "ok", listed,
                            Rendered(param, POSTS_PER_PAGE,
                           paginate_queryset(param, listed, POSTS_PER_PAGE))))
    /\ ReadOnly

(* ------------------------------ environment --------------------------- *)

\* A category row is deleted (the admin site); posts keep a NULL category.
DeleteCategory(c) ==
    /\ c \in DOMAIN categories
    /\ categories' = Without(categories, c)
    /\ posts' = SetNullCategory(c)
    /\ Respond(NoResp)
    /\ UNCHANGED <<comments, locations, now, nextPostId, nextCommentId>>

\* A location row is deleted; posts keep a NULL location.
DeleteLocation(l) ==
    /\ l \in locations
    /\ locations' = locations \ {l}
    /\ posts' = SetNullLocation(l)
    /\ Respond(NoResp)
    /\ UNCHANGED <<comments, categories, now, nextPostId, nextCommentId>>

\* timezone.now() advances.
Tick ==
    /\ now < MaxTime
    /\ now' = now + 1
    /\ Respond(NoResp)
    /\ UNCHANGED <<posts, comments, categories, locations,
                   nextPostId, nextCommentId>>

\* paginate_queryset on its own: any ordered collection, page size and
\* page parameter.
Paginate(param, queryset, per_page) ==
    /\ Respond(Resp("paginate_queryset", Anonymous, "GET", 0, 0, NULL, "ok",
                    queryset,
                    Rendered(param, per_page,
                        paginate_queryset(param, queryset, per_page))))
    /\ ReadOnly

(* ------------------------------ specifications ------------------------ *)

\* An empty blog with its categories and locations provisioned: c1 is
\* published, c2 is not.
Init ==
    /\ posts = <<>>
    /\ comments = <<>>
    /\ categories = [c \in CategoryIds |-> Category(c = "c1")]
    /\ locations = LocationIds
    /\ now = 0
    /\ nextPostId = 1
    /\ nextCommentId = 1
    /\ resp = NoResp

\* Form data of the authorship runs: the content varies, the visibility
\* fields are fixed; author is what a client may try to smuggle in.
AuthPostData ==
    {Post(a, t, 0, TRUE, "c1", NULL) : a \in Users, t \in Texts}

\* Form data of the visibility runs: every combination of the fields the
\* visibility filter reads.
VisPostData ==
    {Post(a, "a", d, pub, c, l) :
        a \in {"u1"}, d \in PubDates, pub \in BOOLEAN, c \in CategoryIds,
        l \in LocationIds \cup {NULL}}

PageParams == {AbsentPage, TextPage} \cup {IntPage(n) : n \in -1..(MaxItems + 1)}

Collections == {[i \in 1..n |-> i] : n \in 0..MaxItems}

\* What a request submits: a GET, a POST the form rejects, a POST it
\* accepts.
Submissions == {<<"GET", FALSE>>, <<"POST", FALSE>>, <<"POST", TRUE>>}

\* Form data of an edit in the authorship runs.
AuthEditData == {d \in AuthPostData : d.author = "u1"}

\* The post_id of a comment route names only the redirect's target, and
\* nothing a logged-out request names is read: one id is drawn.
RoutePostIds == {1}

\* Form data of a logged-out request.
AnonymousData == {Post("u1", "b", 0, TRUE, "c1", NULL)}

\* Authorship and deletion: the six writing handlers, asked by every user
\* with every input, and by a visitor who is not logged in.
Next ==
    \/ \E user \in Users, sub \in Submissions, data \in AuthPostData :
          /\ nextPostId <= MaxPosts
          /\ create_post(user, sub[1], sub[2], data)
    \/ \E user \in Users, sub \in Submissions, post_id \in PostIds,
          data \in AuthEditData :
          edit_post(user, sub[1], sub[2], post_id, data)
    \/ \E user \in Users, method \in Methods, post_id \in PostIds :
          delete_post(user, method, post_id)
    \/ \E user \in Users, sub \in Submissions, post_id \in PostIds,
          text \in Texts :
          /\ nextCommentId <= MaxComments
          /\ add_comment(user, sub[1], sub[2], post_id, text)
    \/ \E user \in Users, sub \in Submissions, post_id \in RoutePostIds,
          comment_id \in CommentIds, text \in Texts :
          edit_comment(user, sub[1], sub[2], post_id, comment_id, text)
    \/ \E user \in Users, method \in Methods, post_id \in RoutePostIds,
          comment_id \in CommentIds :
          delete_comment(user, method, post_id, comment_id)
    \/ \E method \in Methods, data \in AnonymousData, post_id \in RoutePostIds,
          comment_id \in RoutePostIds :
          \/ create_post(Anonymous, method, TRUE, data)
          \/ edit_post(Anonymous, method, TRUE, post_id, data)
          \/ delete_post(Anonymous, method, post_id)
          \/ add_comment(Anonymous, method, TRUE, post_id, data.text)
          \/ edit_comment(Anonymous, method, TRUE, post_id, comment_id, data.text)
          \/ delete_comment(Anonymous, method, post_id, comment_id)

Spec == Init /\ [][Next]_vars

\* Cascade: posts and comments are created and deleted.
CascadeData == {Post("u1", "a", 0, TRUE, "c1", NULL)}

NextCascade ==
    \/ \E user \in Users, data \in CascadeData :
          /\ nextPostId <= MaxCascadePosts
          /\ create_post(user, "POST", TRUE, data)
    \/ \E user \in Users, post_id \in 1..MaxCascadePosts :
          /\ nextCommentId <= MaxCascadeComments
          /\ add_comment(user, "POST", TRUE, post_id, "a")
    \/ \E user \in Users, post_id \in 1..MaxCascadePosts :
          delete_post(user, "POST", post_id)
    \/ \E user \in Users, post_id \in RoutePostIds,
          comment_id \in 1..MaxCascadeComments :
          delete_comment(user, "POST", post_id, comment_id)

SpecCascade == Init /\ [][NextCascade]_vars

\* Visibility: posts are created, the clock advances, categories and
\* locations are deleted, and the reading views are asked.
NextVis ==
    \/ \E user \in Users, data \in VisPostData :
          /\ nextPostId <= MaxVisPosts
          /\ create_post(user, "POST", TRUE, data)
    \/ \E c \in CategoryIds : DeleteCategory(c)
    \/ \E l \in LocationIds : DeleteLocation(l)
    \/ Tick
    \/ \E user \in Requesters : index(user, AbsentPage)
    \/ \E user \in Requesters, post_id \in 1..MaxVisPosts :
          post_detail(user, post_id)

SpecVis == Init /\ [][NextVis]_vars

\* Form data of the profile runs: a public post, a scheduled one, a
\* hidden one, and one in the unpublished category.
ProfileData ==
    {Post("u1", "a", 0, TRUE, "c1", NULL), Post("u1", "a", MaxTime, TRUE, "c1", NULL),
     Post("u1", "a", 0, FALSE, "c1", NULL), Post("u1", "a", 0, TRUE, "c2", NULL)}

\* Profiles: posts are created, the clock advances, categories are
\* deleted, and every viewer asks for every profile.
NextProfile ==
    \/ \E user \in Users, data \in ProfileData :
          /\ nextPostId <= MaxProfilePosts
          /\ create_post(user, "POST", TRUE, data)
    \/ \E c \in CategoryIds : DeleteCategory(c)
    \/ Tick
    \/ \E user \in Requesters, username \in Users \cup {UnknownName} :
          profile(user, username, AbsentPage)

SpecProfile == Init /\ [][NextProfile]_vars

\* Pagination: paginate_queryset over every input.
NextPage ==
    \E param \in PageParams, queryset \in Collections, per_page \in 1..MaxPerPage :
        Paginate(param, queryset, per_page)

SpecPage == Init /\ [][NextPage]_vars

(* ------------------------------ properties ---------------------------- *)

Range(seq) == {seq[i] : i \in 1..Len(seq)}

\* The step just taken answered a request of view by an authenticated user.
Asked(view) == resp'.view = view /\ resp'.user \in Users

PostGone(p) == p \in DOMAIN posts /\ p \notin DOMAIN posts'
PostEdited(p) ==
    p \in DOMAIN posts /\ p \in DOMAIN posts' /\ posts'[p] # posts[p]
CommentGone(c) == c \in DOMAIN comments /\ c \notin DOMAIN comments'
CommentEdited(c) ==
    c \in DOMAIN comments /\ c \in DOMAIN comments' /\ comments'[c] # comments[c]

\* The step is a POST of its author that deletes post p.
AuthorDeletesPost(p) ==
    /\ Asked("delete_post")
    /\ resp'.method = "POST"
    /\ resp'.post_id = p
    /\ resp'.user = posts[p].author

\* The step is a POST of its author that deletes comment c.
AuthorDeletesComment(c) ==
    /\ Asked("delete_comment")
    /\ resp'.method = "POST"
    /\ resp'.comment_id = c
    /\ resp'.user = comments[c].author

PostsOnlyByAuthor ==
    \A p \in DOMAIN posts :
        /\ PostEdited(p) =>
              Asked("edit_post") /\ resp'.post_id = p /\ resp'.user = posts[p].author
        /\ PostGone(p) => AuthorDeletesPost(p)

CommentsEditedOnlyByAuthor ==
    \A c \in DOMAIN comments :
        CommentEdited(c) =>
            /\ Asked("edit_comment")
            /\ resp'.comment_id = c
            /\ resp'.user = comments[c].author

\* The step is a POST on a delete route by the authenticated user.
DeletePostedBy(user) ==
    /\ resp'.view \in {"delete_post", "delete_comment"}
    /\ resp'.method = "POST"
    /\ resp'.user \in Users
    /\ resp'.user = user

\* C2 as stated: a post or a comment changes only in a step whose
\* requester is authenticated and is its author, and is removed only in
\* a POST delete step whose requester is authenticated and is its author.
C2_Original ==
    [][/\ \A p \in DOMAIN posts :
             /\ PostEdited(p) => (resp'.user \in Users /\ resp'.user = posts[p].author)
             /\ PostGone(p) => DeletePostedBy(posts[p].author)
       /\ \A c \in DOMAIN comments :
             /\ CommentEdited(c) =>
                   (resp'.user \in Users /\ resp'.user = comments[c].author)
             /\ CommentGone(c) => DeletePostedBy(comments[c].author)]_vars

\* C2 (amended): a post changes only in an edit request of its author and
\* is removed only in a POST delete request of its author; a comment
\* changes only in an edit request of its author and is removed only in a
\* POST delete request of its author or, by cascade, in the POST delete
\* request that the author of its post makes for that post.  A GET on a
\* delete route removes nothing.
C2_MutatedOnlyByAuthor ==
    [][/\ PostsOnlyByAuthor
       /\ CommentsEditedOnlyByAuthor
       /\ \A c \in DOMAIN comments :
             CommentGone(c) =>
                 \/ AuthorDeletesComment(c)
                 \/ AuthorDeletesPost(comments[c].post)
       /\ (resp'.method = "GET" /\ resp'.view \in {"delete_post", "delete_comment"})
             => store' = store]_vars

\* A post's author has deleted it, and with it a comment.
C2_Witness ==
    /\ resp.view = "delete_post"
    /\ resp.status = "redirect_profile"
    /\ nextCommentId > 1
    /\ DOMAIN comments = {}

\* C3: when an authenticated user who is not the author of an existing
\* post asks to edit it (GET or POST), the answer is a redirect to the
\* post's detail view and the store is unchanged; when they ask to delete
\* it (GET or POST), the answer is NotFound and the store is unchanged.
C3_NonAuthorEditRedirectsDeleteNotFound ==
    [][\A p \in DOMAIN posts :
          (resp'.post_id = p /\ resp'.user \in Users /\ resp'.user # posts[p].author)
          => /\ resp'.view = "edit_post" =>
                   resp'.status = "redirect_detail" /\ store' = store
             /\ resp'.view = "delete_post" =>
                   resp'.status = "not_found" /\ store' = store]_vars

\* A non-author has POSTed an edit of a commented post and was redirected.
C3_Witness ==
    /\ resp.view = "edit_post"
    /\ resp.method = "POST"
    /\ resp.status = "redirect_detail"
    /\ resp.post_id \in DOMAIN posts
    /\ resp.user \in Users
    /\ posts[resp.post_id].author # resp.user
    /\ \E c \in DOMAIN comments : comments[c].post = resp.post_id

\* C8: a post appears only by create_post and a comment only by
\* add_comment, each with the authenticated requester as its author
\* whatever author the submitted data names; and no step changes the
\* author of a post or comment that exists before and after it.
C8_AuthorIsRequesterAndImmutable ==
    [][/\ \A p \in DOMAIN posts' \ DOMAIN posts :
             Asked("create_post") /\ posts'[p].author = resp'.user
       /\ \A c \in DOMAIN comments' \ DOMAIN comments :
             Asked("add_comment") /\ comments'[c].author = resp'.user
       /\ \A p \in DOMAIN posts \cap DOMAIN posts' :
             posts'[p].author = posts[p].author
       /\ \A c \in DOMAIN comments \cap DOMAIN comments' :
             comments'[c].author = comments[c].author]_vars

\* u2 has edited the post they created, and it is still theirs.
C8_Witness ==
    /\ resp.view = "edit_post"
    /\ resp.status = "redirect_detail"
    /\ resp.user = "u2"
    /\ resp.post_id \in DOMAIN posts
    /\ posts[resp.post_id].author = "u2"
    /\ posts[resp.post_id].text = "b"

\* C9: every stored comment references a stored post; a step that removes
\* a post removes every comment of that post and leaves the comments of
\* the other posts as they were.
C9_DeletePostCascades ==
    [][/\ \A c \in DOMAIN comments' : comments'[c].post \in DOMAIN posts'
       /\ \A p \in DOMAIN posts :
             PostGone(p) =>
                 \A c \in DOMAIN comments :
                     IF comments[c].post = p
                     THEN c \notin DOMAIN comments'
                     ELSE c \in DOMAIN comments' /\ comments'[c] = comments[c]]_vars

\* A post was deleted while both posts had a comment: one comment is left.
C9_Witness ==
    /\ resp.view = "delete_post"
    /\ resp.status = "redirect_profile"
    /\ nextCommentId = 3
    /\ DOMAIN comments = {2}
    /\ comments[2].post # resp.post_id

\* C10: a delete request of an authenticated user for a post or comment
\* that is not stored (never created, or deleted before) is answered
\* NotFound and leaves the store unchanged; a delete request answered with
\* the redirect has removed its target; and an id once removed is never
\* stored again.
C10_DeleteOfAbsentIsNotFound ==
    [][/\ (Asked("delete_post") /\ resp'.post_id \notin DOMAIN posts)
             => resp'.status = "not_found" /\ store' = store
       /\ (Asked("delete_comment") /\ resp'.comment_id \notin DOMAIN comments)
             => resp'.status = "not_found" /\ store' = store
       /\ (Asked("delete_post") /\ resp'.status = "redirect_profile")
             => resp'.post_id \notin DOMAIN posts'
       /\ (Asked("delete_comment") /\ resp'.status = "redirect_detail")
             => resp'.comment_id \notin DOMAIN comments'
       /\ \A p \in DOMAIN posts' : p \in DOMAIN posts \/ p >= nextPostId
       /\ \A c \in DOMAIN comments' : c \in DOMAIN comments \/ c >= nextCommentId]_vars

\* A delete request for a post deleted before was answered NotFound.
C10_Witness ==
    /\ resp.view = "delete_post"
    /\ resp.status = "not_found"
    /\ resp.user \in Users
    /\ resp.post_id < nextPostId
    /\ resp.post_id \notin DOMAIN posts

\* The three conditions of visibility as the code applies them: published,
\* not in the future, and in a category that is published.
VisibleInPublishedCategory(p) ==
    /\ posts[p].is_published
    /\ posts[p].pub_date <= now
    /\ posts[p].category # NULL
    /\ categories[posts[p].category].is_published

\* The three conditions of visibility with a NULL category passing.
VisibleOrUncategorised(p) ==
    /\ posts[p].is_published
    /\ posts[p].pub_date <= now
    /\ (posts[p].category = NULL \/ categories[posts[p].category].is_published)

\* A post that is published and not in the future, with no category.
Uncategorised(p) ==
    /\ posts[p].is_published
    /\ posts[p].pub_date <= now
    /\ posts[p].category = NULL

\* C1 as stated: the index lists exactly the posts that are published, not
\* in the future, and whose category is NULL or published.
C1_Original ==
    resp.view = "index" =>
        \A p \in DOMAIN posts :
            p \in Range(resp.listed) <=> VisibleOrUncategorised(p)

\* C1 (amended): the index lists exactly the posts that are published,
\* not in the future, and whose category is not NULL and is published; a
\* post with a NULL category is not listed.  The feed fits its first page
\* while it is no longer than the page size.
C1_FeedIsPublishedInPublishedCategory ==
    resp.view = "index" =>
        /\ resp.status = "ok"
        /\ \A p \in DOMAIN posts :
              p \in Range(resp.listed) <=> VisibleInPublishedCategory(p)
        /\ Len(resp.listed) <= POSTS_PER_PAGE =>
              resp.page.object_list = resp.listed

\* The index was asked while a post was published and not in the future
\* but without a category, and did not list it.
C1_Witness ==
    /\ resp.view = "index"
    /\ \E p \in DOMAIN posts : Uncategorised(p) /\ p \notin Range(resp.listed)

\* The index was asked and listed a post.
C1_Listed ==
    /\ resp.view = "index"
    /\ resp.page.object_list # <<>>

\* C4 as stated: post_detail shows an existing post exactly to its author
\* and, when it is published, not in the future, and its category is NULL
\* or published, to everyone; otherwise NotFound.
C4_Original ==
    (resp.view = "post_detail" /\ resp.post_id \in DOMAIN posts) =>
        /\ resp.status \in {"ok", "not_found"}
        /\ resp.status = "ok" <=>
              \/ resp.user = posts[resp.post_id].author
              \/ VisibleOrUncategorised(resp.post_id)

\* C4 (amended): post_detail shows an existing post to its author
\* whatever its state, and to any other viewer (anonymous included)
\* exactly when it is published, not in the future, and its category is
\* not NULL and is published; otherwise the answer is NotFound.
C4_DetailForAuthorOrPublic ==
    (resp.view = "post_detail" /\ resp.post_id \in DOMAIN posts) =>
        /\ resp.status \in {"ok", "not_found"}
        /\ resp.status = "ok" <=>
              \/ resp.user = posts[resp.post_id].author
              \/ VisibleInPublishedCategory(resp.post_id)

\* A visitor asked for a published, past post without a category and got
\* NotFound.
C4_Witness ==
    /\ resp.view = "post_detail"
    /\ resp.status = "not_found"
    /\ resp.post_id \in DOMAIN posts
    /\ resp.user # posts[resp.post_id].author
    /\ Uncategorised(resp.post_id)

\* The author was shown their own post whose pub_date is in the future.
C4_AuthorPreview ==
    /\ resp.view = "post_detail"
    /\ resp.status = "ok"
    /\ resp.post_id \in DOMAIN posts
    /\ resp.user = posts[resp.post_id].author
    /\ posts[resp.post_id].pub_date > now

\* The step deletes category c.
CategoryGone(c) == c \in DOMAIN categories /\ c \notin DOMAIN categories'

\* The step deletes location l.
LocationGone(l) == l \in locations /\ l \notin locations'

\* Post p is in the public feed.
InFeed(p) == \A listed \in public_posts(DOMAIN posts) : p \in Range(listed)

\* Deleting a category or a location deletes no post and changes of the
\* posts that referenced it only the reference, to NULL.
ReferencesSetNull ==
    /\ \A c \in DOMAIN categories :
          CategoryGone(c) =>
              /\ DOMAIN posts' = DOMAIN posts
              /\ \A p \in DOMAIN posts :
                    posts'[p] = IF posts[p].category = c
                                THEN [posts[p] EXCEPT !.category = NULL]
                                ELSE posts[p]
    /\ \A l \in locations :
          LocationGone(l) =>
              /\ DOMAIN posts' = DOMAIN posts
              /\ \A p \in DOMAIN posts :
                    /\ posts'[p] = IF posts[p].location = l
                                   THEN [posts[p] EXCEPT !.location = NULL]
                                   ELSE posts[p]
                    /\ InFeed(p)' <=> InFeed(p)

\* C6 as stated: deleting category C keeps a post P of C, with a NULL
\* category, and P, in the public feed before, is in it afterwards.
C6_Original ==
    [][/\ ReferencesSetNull
       /\ \A c \in DOMAIN categories :
             CategoryGone(c) =>
                 \A p \in DOMAIN posts :
                     (posts[p].category = c /\ InFeed(p)) => InFeed(p)']_vars

\* C6 (amended): deleting category C keeps every post P of C, with a NULL
\* category and nothing else changed, but P is then not in the public
\* feed, whose filter asks for a published category; deleting a location
\* only sets the location of its posts to NULL and leaves the feed as it
\* was.
C6_DeleteCategoryKeepsPostHidesIt ==
    [][/\ ReferencesSetNull
       /\ \A c \in DOMAIN categories :
             CategoryGone(c) =>
                 \A p \in DOMAIN posts :
                     posts[p].category = c => ~InFeed(p)']_vars

\* The published category was deleted under a published, past post, which
\* is still stored.
C6_Witness ==
    /\ resp = NoResp
    /\ "c1" \notin DOMAIN categories
    /\ \E p \in DOMAIN posts : Uncategorised(p) /\ posts[p].location # NULL

\* Newest pub_date first, each post once.
NewestFirst(listed) ==
    /\ \A i, j \in 1..Len(listed) : i # j => listed[i] # listed[j]
    /\ \A i, j \in 1..Len(listed) :
          i < j => posts[listed[i]].pub_date >= posts[listed[j]].pub_date

\* C7 as stated: the profile of U lists, newest first, all of U's posts
\* for U and, for any other viewer, U's posts that are published, not in
\* the future, and whose category is NULL or published.
C7_Original ==
    (resp.view = "profile" /\ resp.username \in Users) =>
        /\ NewestFirst(resp.listed)
        /\ Range(resp.listed) =
              {p \in DOMAIN posts :
                  /\ posts[p].author = resp.username
                  /\ resp.user = resp.username \/ VisibleOrUncategorised(p)}

\* C7 (amended): the profile of U lists, newest pub_date first, all of
\* U's posts when the viewer is U, and when the viewer is anyone else
\* exactly U's posts that are published, not in the future, and whose
\* category is not NULL and is published; no post of another author is
\* listed.
C7_ProfileListsOwnOrPublic ==
    (resp.view = "profile" /\ resp.username \in Users) =>
        /\ resp.status = "ok"
        /\ NewestFirst(resp.listed)
        /\ Range(resp.listed) =
              {p \in DOMAIN posts :
                  /\ posts[p].author = resp.username
                  /\ resp.user = resp.username \/ VisibleInPublishedCategory(p)}
        /\ Len(resp.listed) <= POSTS_PER_PAGE =>
              resp.page.object_list = resp.listed

\* Another viewer asked for the profile of a user with two posts, one
\* public and listed, one published and past but without a category.
C7_Witness ==
    /\ resp.view = "profile"
    /\ resp.user # resp.username
    /\ Len(resp.listed) = 1
    /\ \E p \in DOMAIN posts :
          /\ posts[p].author = resp.username
          /\ Uncategorised(p)
          /\ p \notin Range(resp.listed)

\* The owner's profile lists a future post before a past one.
C7_OwnerSeesAll ==
    /\ resp.view = "profile"
    /\ resp.user = resp.username
    /\ Len(resp.listed) = 2
    /\ posts[resp.listed[1]].pub_date > now
    /\ ~posts[resp.listed[2]].is_published

\* The last page of a collection of n items in pages of size: the least
\* k >= 1 whose first k pages hold all n items.
LastPage(n, size) ==
    CHOOSE k \in 1..(n + 1) :
        /\ k * size >= n
        /\ \A m \in 1..(k - 1) : m * size < n

\* Page k of a collection: its items at positions ((k-1)*size, k*size].
Slice(collection, k, size) ==
    LET first == (k - 1) * size
        n == IF k * size <= Len(collection)
             THEN size ELSE Len(collection) - first
    IN [i \in 1..n |-> collection[first + i]]

\* What paginate_queryset answered is page k of what it was given.
AnsweredPage(k) ==
    /\ resp.page.number = k
    /\ resp.page.object_list = Slice(resp.listed, k, resp.page.per_page)

\* A numeral naming one of the collection's pages is answered with that
\* page, an absent or non-numeric parameter with page 1, a numeral beyond
\* the last page with the last page.
PagesAsAsked ==
    LET param == resp.page.param
        last == LastPage(Len(resp.listed), resp.page.per_page)
    IN /\ resp.status = "ok"
       /\ (param.kind = "int" /\ param.val >= 1 /\ param.val <= last)
             => AnsweredPage(param.val)
       /\ param.kind \in {"absent", "text"} => AnsweredPage(1)
       /\ (param.kind = "int" /\ param.val > last) => AnsweredPage(last)

\* C5 as stated: as above, and page 0 is answered with page 1.
C5_Original ==
    resp.view = "paginate_queryset" =>
        /\ PagesAsAsked
        /\ resp.page.param = IntPage(0) => AnsweredPage(1)

\* C5 (amended): paginate_queryset over an ordered collection with page
\* size S answers a valid page N with exactly the items at positions
\* [(N-1)*S, N*S), an absent or non-numeric parameter with page 1, a page
\* number greater than the last page with the last page, and page 0 (any
\* number below 1) with the last page, not page 1; no request is an error.
C5_PaginationClamps ==
    resp.view = "paginate_queryset" =>
        /\ PagesAsAsked
        /\ (resp.page.param.kind = "int" /\ resp.page.param.val < 1)
              => AnsweredPage(LastPage(Len(resp.listed), resp.page.per_page))

\* Page 0 of a collection of several pages was asked, and the last page
\* answered.
C5_Witness ==
    /\ resp.view = "paginate_queryset"
    /\ resp.page.param = IntPage(0)
    /\ resp.page.number > 1
    /\ Len(resp.page.object_list) < resp.page.per_page

====
